---- MODULE Spec2Model ----
(***************************************************************************)
(* Generated Azure SDK operation groups: cursor paging (list_X),           *)
(* status-to-error mapping of single calls (get) and long-running          *)
(* operations (begin_X).  The operation bodies are translated from the     *)
(* generated code; the pager, map_error and the poller live in azure-core  *)
(* and are modelled after the design description.                          *)
(***************************************************************************)
EXTENDS Integers, Sequences, FiniteSets, TLC

VARIABLES
    \* ---- one listing: the list_X call, its pager and its consumer
    listOp,                \* which list operation was called
    listApi,               \* the api_version keyword of the call, or NoArg
    listErrMap,            \* the error_map keyword of the call (EmptyMap when absent)
    cfgApi,                \* self._config.api_version of the client
    byPageToken,           \* the continuation_token given to by_page(), NoneLink if none
    continuation_token,    \* PageIterator.continuation_token
    did_a_call_already,    \* PageIterator._did_a_call_already
    current_page,          \* items of the current page not yet yielded
    delivered,             \* items the consumer has received, in order
    expected,              \* concatenation of the value lists the server has sent
    nRequests,             \* page requests issued
    nServed,               \* page responses received
    lastRequest,           \* the last page request issued
    lastResponse,          \* the last page response received
    pagerPc,               \* "ready", "waiting", "done" or "raised"
    pagerError,            \* the error kind raised to the consumer, or NoError
    other,                 \* a second listing made on the same operations object
    \* ---- single calls (get) on one operations object
    callOp,                \* the operation of the last call
    callErrMap,            \* its error_map keyword (EmptyMap when absent)
    callCls,               \* whether a cls callback was passed
    callStatus,            \* the status code the service answered
    callOutcome,           \* what the call did: returned or raised, and how
    prevErrMap,            \* the error_map keyword of the call before it
    nCalls,                \* calls made so far
    \* ---- one TableClient and the table it names
    tableExists,           \* whether the service holds the table
    entityExists,          \* whether the table holds the entity
    tblCalls,              \* the delete calls made so far: operation, status, outcome
    \* ---- one long-running operation: the begin_X call and its poller
    lroOp,                 \* which begin_X operation is called
    lroPolling,            \* the polling keyword: TRUE (ARMPolling) or FALSE (NoPolling)
    lroToken,              \* the continuation_token keyword: NoToken, EmptyToken or a token
    lroErrMap,             \* the error_map keyword
    lroCls,                \* whether a cls callback was passed
    lroInitial,            \* the initiating response, NoInitial before it exists
    lroConvention,         \* how the poller polls, fixed when it is created
    lroStatus,             \* the status of the operation handle
    lroRequests,           \* the requests issued for this operation, in order
    lroInFlight,           \* the request awaiting its response, "none" if none
    lroResult,             \* the result of the poller once it succeeded
    lroError,              \* the error begin_X or the poller raises, or NoError
    lroPc,                 \* "idle", "created" (a poller exists) or "raised"
    lroIntervalArg,        \* the polling_interval keyword of the call, or NoInterval
    cfgInterval,           \* the client's configured polling_interval
    lroDelay,              \* the wait before the next poll, NoInterval when none is due
    lroLastPoll,           \* the last poll response received
    lroCaller,             \* the caller of result(): "idle", "waiting", "waiting_timeout"
    lroReturned,           \* what the last done() or result() call gave the caller
    resumed,               \* the poller rebuilt from continuation_token(), if any
    lroOutstanding,        \* requests of the poller sent and not yet answered
    lroPollingErrMap       \* the error_map entry of the keywords the polling method got

pagingVars == <<listOp, listApi, listErrMap, cfgApi, byPageToken, continuation_token,
                did_a_call_already, current_page, delivered, expected,
                nRequests, nServed, lastRequest, lastResponse, pagerPc, pagerError,
                other>>

tableVars == <<tableExists, entityExists, tblCalls>>

callVars == <<callOp, callErrMap, callCls, callStatus, callOutcome, prevErrMap, nCalls,
              tableVars>>

lroVars == <<lroOp, lroPolling, lroToken, lroErrMap, lroCls, lroInitial, lroConvention,
             lroStatus, lroRequests, lroInFlight, lroResult, lroError, lroPc,
             lroIntervalArg, cfgInterval, lroDelay, lroLastPoll, lroCaller,
             lroReturned, resumed, lroOutstanding, lroPollingErrMap>>

vars == <<pagingVars, callVars, lroVars>>

-----------------------------------------------------------------------------
\* Bounds

MaxPages == 3
MaxCalls == 3
MaxPolls == 2
MaxDeletes == 3
MaxOtherPages == 2

-----------------------------------------------------------------------------
\* Values

NoArg == "None"
NoError == "None"
EmptyMap == [s \in {} |-> ""]

\* a next_link as the page model holds it: None, the empty string or a URL
NoneLink == [t |-> "None", path |-> "", query |-> <<>>]
EmptyString == [t |-> "empty", path |-> "", query |-> <<>>]
Url(p, q) == [t |-> "url", path |-> p, query |-> q]
\* the nextLink member of a response body can also be missing altogether
AbsentLink == [t |-> "absent", path |-> "", query |-> <<>>]

\* Python truthiness of a next_link: None and "" are falsy
Truthy(link) == link.t = "url"

Links ==
    { Url("/list", << <<"cursor", "2">> >>),
      Url("/list", << <<"api-version", "1999-01-01">>, <<"cursor", "2">> >>),
      Url("/list", << <<"cursor", "2">>, <<"filter", "">> >>),
      Url("/page", << <<"API-Version", "1999-01-01">>, <<"k", "1">>, <<"k", "2">> >>) }

BodyLinks == {AbsentLink, NoneLink, EmptyString} \cup Links

\* the continuation_token a caller hands to by_page(): none, or the cursor an
\* earlier iteration stopped at
ByPageTokens == { NoneLink, Url("/resume", << <<"cursor", "7">> >>) }

PageValues == { <<>>, <<"A">>, <<"A", "B">> }

ErrorStatuses == {304, 401, 404, 409, 500}

PageResponses ==
    { [status |-> 200, value |-> v, nextLink |-> l] : v \in PageValues, l \in BodyLinks }
    \cup { [status |-> s, value |-> <<>>, nextLink |-> AbsentLink] : s \in ErrorStatuses }

NoResponse == [status |-> 0, value |-> <<>>, nextLink |-> AbsentLink]
NoRequest == [method |-> "", path |-> "", query |-> <<>>, params |-> EmptyMap]

\* the pages served to the second listing
OtherResponses ==
    { [status |-> 200, value |-> <<"A">>, nextLink |-> Url("/list", << <<"cursor", "2">> >>)],
      [status |-> 200, value |-> <<"B">>, nextLink |-> NoneLink],
      [status |-> 404, value |-> <<>>, nextLink |-> AbsentLink] }

\* no second listing was made
NoOther ==
    [op |-> "none", api |-> NoArg, errMap |-> EmptyMap, continuation_token |-> NoneLink,
     did_a_call_already |-> FALSE, current_page |-> <<>>, delivered |-> <<>>,
     expected |-> <<>>, nRequests |-> 0, nServed |-> 0, lastRequest |-> NoRequest,
     lastResponse |-> NoResponse, pc |-> "none", error |-> NoError]

ListOps == { "list_update_domains", "list_os_versions", "list_by_restore_point",
             "list_by_factory", "AgentPools_list", "list_available_sizes" }

ListErrMaps == { EmptyMap, (404 :> "CustomError") }

CallOps == { "VMSSVMExtensions_get", "Geolocation_get_location", "Factories_get",
             "ManagedPrivateEndpoints_get", "AvailabilitySets_get",
             "get_update_domain", "AgentPools_get" }

CallErrMaps == { EmptyMap, (404 :> "CustomError"),
                 (304 :> "CustomError") @@ (500 :> "OtherError") }

CallStatuses == {200, 304, 401, 404, 409, 500}

NoOutcome == [result |-> "none", kind |-> NoError, value |-> "None",
              deserialized |-> FALSE, errorModel |-> FALSE, clsInvoked |-> FALSE]

LroOps == { "begin_walk_update_domain", "VMSSVMExtensions_begin_delete",
            "VMSSVMExtensions_begin_create_or_update",
            "AgentPools_begin_create_or_update", "AgentPools_begin_delete",
            "AgentPools_begin_upgrade_node_image_version" }

NoResult == [from |-> "none", value |-> "None"]

\* what a continuation token carries: the convention of the saved poller
Conventions == {"AsyncOperation", "Location", "Body"}

Token(convention) == [t |-> "token", convention |-> convention]

\* continuation_token was not passed
NoToken == [t |-> "None", convention |-> "none"]

\* continuation_token=""
EmptyToken == [t |-> "", convention |-> "none"]

LroTokens == {NoToken, EmptyToken} \cup {Token(c) : c \in Conventions}

\* no Retry-After header, no polling_interval keyword, no wait due
NoInterval == -1

RetryAfters == {NoInterval, 2}

PollingIntervalArgs == {NoInterval, 5}

ConfiguredIntervals == {30}

InitialStatuses == {200, 201, 202, 204, 404, 500}

ProvisioningStates == {"None", "InProgress", "Succeeded"}

\* the responses to an initiating request: an error response and a 204 carry
\* neither polling headers nor a resource body, a 202 carries no resource body
InitialResponses ==
    { r \in [status : InitialStatuses, asyncOperation : BOOLEAN, location : BOOLEAN,
             provisioningState : ProvisioningStates, retryAfter : RetryAfters] :
        /\ r.status \in {204, 404, 500} =>
              ~r.asyncOperation /\ ~r.location /\ r.retryAfter = NoInterval
        /\ r.status \notin {200, 201} => r.provisioningState = "None" }

NoInitial == [status |-> 0, asyncOperation |-> FALSE, location |-> FALSE,
              provisioningState |-> "None", retryAfter |-> NoInterval]

\* the responses to a poll: a 202 reports no terminal state, and only a
\* response reporting InProgress carries Retry-After
PollResponses ==
    { r \in [code : {200, 202},
             state : {"InProgress", "Succeeded", "Failed", "Canceled"},
             retryAfter : RetryAfters] :
        /\ r.code = 202 => r.state = "InProgress"
        /\ r.state # "InProgress" => r.retryAfter = NoInterval }
    \cup {[code |-> 404, state |-> "None", retryAfter |-> NoInterval]}

NoPoll == [code |-> 0, state |-> "None", retryAfter |-> NoInterval]

NoReturn == [call |-> "none", kind |-> "none", value |-> NoResult]

NoResumed ==
    [exists |-> FALSE, convention |-> "none", status |-> "NotStarted",
     requests |-> <<>>, inFlight |-> "none", result |-> NoResult, error |-> NoError,
     delay |-> NoInterval, lastPoll |-> NoPoll, outstanding |-> 0]

TerminalStatuses == {"Succeeded", "Failed", "Canceled"}

-----------------------------------------------------------------------------
\* The generated list operations

\* the api-version literal of the package each operation belongs to
PackageApiVersion(op) ==
    CASE op \in {"list_update_domains", "list_os_versions"} -> "2021-03-01"
      [] op = "list_by_restore_point" -> "2020-09-30"
      [] op = "AgentPools_list" -> "2022-01-01"
      [] op = "list_available_sizes" -> "2015-06-15"
      [] op = "list_by_factory" -> "2018-06-01"

\* the default of the api_version keyword: the package literal, except that
\* list_by_factory defaults to the client's configured version
DefaultApiVersion(op, cfg) ==
    IF op = "list_by_factory" THEN cfg ELSE PackageApiVersion(op)

\* api_version = kwargs.pop("api_version", <default>)
api_version(op, kw, cfg) == IF kw = NoArg THEN DefaultApiVersion(op, cfg) ELSE kw

default_error_map_without_409(op) ==
    (401 :> "ClientAuthenticationError") @@ (404 :> "ResourceNotFoundError")
    @@ (304 :> "ResourceNotModifiedError")

default_error_map_without_304(op) ==
    (401 :> "ClientAuthenticationError") @@ (404 :> "ResourceNotFoundError")
    @@ (409 :> "ResourceExistsError")

\* the error_map literal each operation starts from: the datafactory,
\* containerservice and maps operations do not name 304
default_error_map(op) ==
    IF op \in {"list_by_factory", "AgentPools_list", "Factories_get",
               "ManagedPrivateEndpoints_get", "Geolocation_get_location",
               "AgentPools_get", "AgentPools_begin_create_or_update",
               "AgentPools_begin_delete",
               "AgentPools_begin_upgrade_node_image_version"}
    THEN (401 :> "ClientAuthenticationError") @@ (404 :> "ResourceNotFoundError")
         @@ (409 :> "ResourceExistsError")
    ELSE (401 :> "ClientAuthenticationError") @@ (404 :> "ResourceNotFoundError")
         @@ (409 :> "ResourceExistsError") @@ (304 :> "ResourceNotModifiedError")

error_map_replace(defaults, kw) == IF kw = EmptyMap THEN defaults ELSE kw

\* error_map.update(kwargs.pop("error_map", {}) or {})
error_map_update(defaults, kw) == kw @@ defaults

\* azure.core.exceptions.map_error: the kind registered for the status, if any
map_error(status, error_map) ==
    IF status \in DOMAIN error_map THEN error_map[status] ELSE NoError

\* map_error(...) followed by raise HttpResponseError(...)
raised_kind(status, error_map) ==
    IF map_error(status, error_map) # NoError
    THEN map_error(status, error_map)
    ELSE "HttpResponseError"

\* the template path of the initial list request
ListPath(op) == "/" \o op

\* urllib.parse.parse_qs: the values of key k, blank values dropped
RECURSIVE ValuesOf(_, _)
ValuesOf(q, k) ==
    IF q = <<>> THEN <<>>
    ELSE (IF Head(q)[1] = k /\ Head(q)[2] # "" THEN <<Head(q)[2]>> ELSE <<>>)
         \o ValuesOf(Tail(q), k)

parse_qs(q) ==
    [k \in {q[i][1] : i \in {j \in 1..Len(q) : q[j][2] # ""}} |-> ValuesOf(q, k)]

\* case_insensitive_dict: keys are compared in lower case
Lower(k) == IF k = "API-Version" THEN "api-version" ELSE k

case_insensitive_dict(d) ==
    [k \in {Lower(x) : x \in DOMAIN d} |-> d[CHOOSE x \in DOMAIN d : Lower(x) = k]]

SetItem(d, k, v) == [x \in DOMAIN d \cup {k} |-> IF x = k THEN v ELSE d[x]]

\* prepare_request(next_link) of the operations that rebuild the request from
\* the parsed next_link
prepare_request_parsed(op, next_link, kwApi, cfg) ==
    IF ~Truthy(next_link)
    THEN [method |-> "GET", path |-> ListPath(op), query |-> <<>>,
          params |-> ("api-version" :> <<api_version(op, kwApi, cfg)>>)]
    ELSE [method |-> "GET", path |-> next_link.path, query |-> <<>>,
          params |-> SetItem(case_insensitive_dict(parse_qs(next_link.query)),
                             "api-version", <<cfg>>)]

\* prepare_request(next_link) of AgentPoolsOperations.list: the next_link is
\* the template_url of an ordinary list request
prepare_request_template(op, next_link, kwApi, cfg) ==
    IF ~Truthy(next_link)
    THEN [method |-> "GET", path |-> ListPath(op), query |-> <<>>,
          params |-> ("api-version" :> <<api_version(op, kwApi, cfg)>>)]
    ELSE [method |-> "GET", path |-> next_link.path, query |-> next_link.query,
          params |-> ("api-version" :> <<api_version(op, kwApi, cfg)>>)]

prepare_request_async_uses_template(op, next_link, kwApi, cfg) ==
    IF op \in {"AgentPools_list", "list_os_versions"}
    THEN prepare_request_template(op, next_link, kwApi, cfg)
    ELSE prepare_request_parsed(op, next_link, kwApi, cfg)

prepare_request_ignores_cursor(op, next_link, kwApi, cfg) ==
    [method |-> "GET", path |-> ListPath(op), query |-> <<>>,
     params |-> ("api-version" :> <<api_version(op, kwApi, cfg)>>)]

prepare_request(op, next_link, kwApi, cfg) ==
    IF op = "AgentPools_list"
    THEN prepare_request_template(op, next_link, kwApi, cfg)
    ELSE prepare_request_parsed(op, next_link, kwApi, cfg)

\* self._deserialize("<X>ListResult", response).next_link: a missing or null
\* nextLink is None; VirtualMachineSizeListResult has no next_link at all
deserialized_next_link(op, body) ==
    IF op = "list_available_sizes" \/ body.nextLink.t = "absent"
    THEN NoneLink
    ELSE body.nextLink

extract_data_drops_first(op, body) ==
    [token |-> IF Truthy(deserialized_next_link(op, body))
               THEN deserialized_next_link(op, body) ELSE NoneLink,
     page |-> IF body.value = <<>> THEN <<>> ELSE Tail(body.value)]

extract_data_empty_is_done(op, body) ==
    [token |-> IF Truthy(deserialized_next_link(op, body)) /\ body.value # <<>>
               THEN deserialized_next_link(op, body) ELSE NoneLink,
     page |-> body.value]

extract_data_keeps_empty_string(op, body) ==
    [token |-> deserialized_next_link(op, body), page |-> body.value]

extract_data_follows_body_link(op, body) ==
    [token |-> IF Truthy(body.nextLink) THEN body.nextLink ELSE NoneLink,
     page |-> body.value]

\* extract_data(pipeline_response): (deserialized.next_link or None, iter(value));
\* list_available_sizes returns (None, iter(value))
extract_data(op, body) ==
    [token |-> IF op # "list_available_sizes" /\ Truthy(deserialized_next_link(op, body))
               THEN deserialized_next_link(op, body) ELSE NoneLink,
     page |-> body.value]

closure_error_map_is_shared(own, others) == own @@ others

\* the error_map keyword as the closures of one call see it: the map is built
\* inside the call, whatever other calls were given
closure_error_map(own, others) == own

get_next_swallows_error(op, response, kwMap) ==
    [raised |-> FALSE, kind |-> NoError,
     response |-> IF response.status = 200 THEN response
                  ELSE [status |-> 200, value |-> <<>>, nextLink |-> AbsentLink]]

\* get_next(next_link) after the pipeline has run: the status check
get_next(op, response, kwMap) ==
    IF response.status # 200
    THEN [raised |-> TRUE,
          kind |-> raised_kind(response.status,
                               error_map_update(default_error_map(op), kwMap)),
          response |-> response]
    ELSE [raised |-> FALSE, kind |-> NoError, response |-> response]

-----------------------------------------------------------------------------
\* The pager driven by its consumer

\* no call was made yet on the operations object
IdleCalls ==
    /\ callOp = "AvailabilitySets_get"
    /\ callErrMap = EmptyMap
    /\ callCls = FALSE
    /\ callStatus = 0
    /\ callOutcome = NoOutcome
    /\ prevErrMap = EmptyMap
    /\ nCalls = 0

\* no TableClient call was made and the service holds no table
NoTable ==
    /\ tableExists = FALSE
    /\ entityExists = FALSE
    /\ tblCalls = <<>>

by_page_restarts(token) == NoneLink

\* by_page(continuation_token): the cursor the page iterator starts from
by_page(token) == token

\* the page iterator as by_page(token) builds it
PagerStartedAt(token) ==
    /\ continuation_token = by_page(token)
    /\ did_a_call_already = FALSE
    /\ current_page = <<>>
    /\ delivered = <<>>
    /\ expected = <<>>
    /\ nRequests = 0
    /\ nServed = 0
    /\ lastRequest = NoRequest
    /\ lastResponse = NoResponse
    /\ pagerPc = "ready"
    /\ pagerError = NoError

\* no pager exists yet
IdlePager ==
    /\ other = NoOther
    /\ byPageToken = NoneLink
    /\ PagerStartedAt(NoneLink)

\* begin_X was not called yet
IdlePoller ==
    /\ lroInitial = NoInitial
    /\ lroConvention = "none"
    /\ lroStatus = "NotStarted"
    /\ lroRequests = <<>>
    /\ lroInFlight = "none"
    /\ lroResult = NoResult
    /\ lroError = NoError
    /\ lroPc = "idle"
    /\ lroDelay = NoInterval
    /\ lroLastPoll = NoPoll
    /\ lroCaller = "idle"
    /\ lroReturned = NoReturn
    /\ resumed = NoResumed
    /\ lroOutstanding = 0
    /\ lroPollingErrMap = EmptyMap

NoListing ==
    /\ listOp = "list_update_domains"
    /\ listApi = NoArg
    /\ listErrMap = EmptyMap
    /\ cfgApi = "2021-03-01"
    /\ IdlePager

NoLro ==
    /\ lroOp = "begin_walk_update_domain"
    /\ lroPolling = TRUE
    /\ lroToken = NoToken
    /\ lroErrMap = EmptyMap
    /\ lroCls = FALSE
    /\ lroIntervalArg = NoInterval
    /\ cfgInterval = 30
    /\ IdlePoller

\* a list operation was called and returned its pager; nothing was pulled yet
InitPaging ==
    /\ listOp \in ListOps
    /\ listApi \in {NoArg, "2020-01-01"}
    /\ listErrMap \in ListErrMaps
    /\ cfgApi \in {PackageApiVersion(listOp), "2023-01-01"}
    /\ byPageToken \in ByPageTokens
    /\ PagerStartedAt(byPageToken)
    /\ other = NoOther
    /\ IdleCalls
    /\ NoTable
    /\ NoLro

\* the consumer pulls and the current page still has an item
YieldItem ==
    /\ pagerPc = "ready"
    /\ current_page # <<>>
    /\ delivered' = Append(delivered, Head(current_page))
    /\ current_page' = Tail(current_page)
    /\ UNCHANGED <<listOp, listApi, listErrMap, cfgApi, byPageToken, continuation_token,
                   did_a_call_already, expected, nRequests, nServed, lastRequest,
                   lastResponse, pagerPc, pagerError>>
    /\ UNCHANGED <<other, callVars, lroVars>>

\* the consumer pulls, the page is used up and there is no cursor left
StopIteration ==
    /\ pagerPc = "ready"
    /\ current_page = <<>>
    /\ continuation_token.t = "None" /\ did_a_call_already
    /\ pagerPc' = "done"
    /\ UNCHANGED <<listOp, listApi, listErrMap, cfgApi, byPageToken, continuation_token,
                   did_a_call_already, current_page, delivered, expected,
                   nRequests, nServed, lastRequest, lastResponse, pagerError>>
    /\ UNCHANGED <<other, callVars, lroVars>>

\* the consumer pulls, the page is used up: get_next(continuation_token) sends
SendPageRequest ==
    /\ pagerPc = "ready"
    /\ current_page = <<>>
    /\ ~(continuation_token.t = "None" /\ did_a_call_already)
    /\ nRequests < MaxPages
    /\ lastRequest' = prepare_request(listOp, continuation_token, listApi, cfgApi)
    /\ nRequests' = nRequests + 1
    /\ pagerPc' = "waiting"
    /\ UNCHANGED <<listOp, listApi, listErrMap, cfgApi, byPageToken, continuation_token,
                   did_a_call_already, current_page, delivered, expected,
                   nServed, lastResponse, pagerError>>
    /\ UNCHANGED <<other, callVars, lroVars>>

\* the response arrives: get_next checks the status, extract_data reads the page
ReceivePage ==
    /\ pagerPc = "waiting"
    /\ \E response \in PageResponses :
         LET got == get_next(listOp, response,
                            closure_error_map(listErrMap, other.errMap))
             data == extract_data(listOp, got.response)
         IN /\ lastResponse' = response
            /\ nServed' = nServed + 1
            /\ expected' = expected \o response.value
            /\ IF got.raised
               THEN /\ pagerPc' = "raised"
                    /\ pagerError' = got.kind
                    /\ UNCHANGED <<continuation_token, did_a_call_already, current_page>>
               ELSE /\ pagerPc' = "ready"
                    /\ did_a_call_already' = TRUE
                    /\ continuation_token' = data.token
                    /\ current_page' = data.page
                    /\ UNCHANGED pagerError
    /\ UNCHANGED <<listOp, listApi, listErrMap, cfgApi, byPageToken, delivered, nRequests, lastRequest>>
    /\ UNCHANGED <<other, callVars, lroVars>>

NextPaging == YieldItem \/ StopIteration \/ SendPageRequest \/ ReceivePage

SpecPaging == InitPaging /\ [][NextPaging]_vars

-----------------------------------------------------------------------------
\* Two listings made on one operations object, consumed in any interleaving

OneListingVars ==
    <<listOp, listApi, listErrMap, cfgApi, byPageToken, continuation_token,
      did_a_call_already, current_page, delivered, expected, nRequests, nServed,
      lastRequest, lastResponse, pagerPc, pagerError>>

\* the same list operation was called twice with different keywords and
\* returned two pagers; nothing was pulled yet
InitTwoListings ==
    /\ listOp \in {"list_update_domains", "list_os_versions"}
    /\ listApi = NoArg
    /\ listErrMap \in ListErrMaps
    /\ cfgApi = PackageApiVersion(listOp)
    /\ byPageToken = NoneLink
    /\ PagerStartedAt(byPageToken)
    /\ other = [NoOther EXCEPT !.op = listOp, !.api = "2020-01-01", !.pc = "ready"]
    /\ IdleCalls
    /\ NoTable
    /\ NoLro

\* the consumer of the second listing pulls and the current page has an item
OtherYieldItem ==
    /\ other.pc = "ready"
    /\ other.current_page # <<>>
    /\ other' = [other EXCEPT !.delivered = Append(@, Head(other.current_page)),
                              !.current_page = Tail(@)]
    /\ UNCHANGED <<OneListingVars, callVars, lroVars>>

\* the consumer of the second listing pulls and there is no cursor left
OtherStopIteration ==
    /\ other.pc = "ready"
    /\ other.current_page = <<>>
    /\ other.continuation_token.t = "None" /\ other.did_a_call_already
    /\ other' = [other EXCEPT !.pc = "done"]
    /\ UNCHANGED <<OneListingVars, callVars, lroVars>>

\* the consumer of the second listing pulls: get_next(continuation_token) sends
OtherSendPageRequest ==
    /\ other.pc = "ready"
    /\ other.current_page = <<>>
    /\ ~(other.continuation_token.t = "None" /\ other.did_a_call_already)
    /\ other.nRequests < MaxOtherPages
    /\ other' = [other EXCEPT
           !.lastRequest = prepare_request(other.op, other.continuation_token,
                                           other.api, cfgApi),
           !.nRequests = @ + 1,
           !.pc = "waiting"]
    /\ UNCHANGED <<OneListingVars, callVars, lroVars>>

\* the response to the second listing arrives
OtherReceivePage ==
    /\ other.pc = "waiting"
    /\ \E response \in OtherResponses :
         LET got == get_next(other.op, response,
                             closure_error_map(other.errMap, listErrMap))
             data == extract_data(other.op, got.response)
             seen == [other EXCEPT !.lastResponse = response,
                                   !.nServed = @ + 1,
                                   !.expected = @ \o response.value]
         IN other' = IF got.raised
                     THEN [seen EXCEPT !.pc = "raised", !.error = got.kind]
                     ELSE [seen EXCEPT !.pc = "ready",
                                       !.did_a_call_already = TRUE,
                                       !.continuation_token = data.token,
                                       !.current_page = data.page]
    /\ UNCHANGED <<OneListingVars, callVars, lroVars>>

NextOther ==
    OtherYieldItem \/ OtherStopIteration \/ OtherSendPageRequest \/ OtherReceivePage

NextTwoListings == NextPaging \/ NextOther

SpecTwoListings == InitTwoListings /\ [][NextTwoListings]_vars

-----------------------------------------------------------------------------
\* Single calls: get operations of one operations object

accepted_statuses_accepts_all(op) == {200, 201, 202, 204, 304, 401, 404, 409, 500}

\* the statuses an operation accepts (response.status_code not in [...])
accepted_statuses(op) ==
    CASE op = "Factories_get" -> {200, 304}
      [] op \in CallOps \ {"Factories_get"} -> {200}
      [] op \in {"begin_walk_update_domain",
                 "AgentPools_begin_upgrade_node_image_version"} -> {200, 202}
      [] op = "VMSSVMExtensions_begin_delete" -> {200, 202, 204}
      [] op = "AgentPools_begin_delete" -> {202, 204}
      [] op \in {"VMSSVMExtensions_begin_create_or_update",
                 "AgentPools_begin_create_or_update"} -> {200, 201}

\* get_location failsafe-deserializes the error body before the generic raise
deserializes_error_model(op) == op = "Geolocation_get_location"

\* FactoriesOperations.get deserializes only a 200
deserializes_result(op, status) == op = "Factories_get" => status = 200

\* one get operation, from the error_map of the call to its return or raise
operation(op, kwMap, cls, status) ==
    LET error_map == error_map_update(default_error_map(op), kwMap) IN
    IF status \notin accepted_statuses(op)
    THEN [result |-> "raised",
          kind |-> raised_kind(status, error_map),
          value |-> "None",
          deserialized |-> FALSE,
          errorModel |-> deserializes_error_model(op)
                         /\ map_error(status, error_map) = NoError,
          clsInvoked |-> FALSE]
    ELSE [result |-> "returned",
          kind |-> NoError,
          value |-> IF cls THEN "cls"
                    ELSE IF deserializes_result(op, status) THEN "model" ELSE "None",
          deserialized |-> deserializes_result(op, status),
          errorModel |-> FALSE,
          clsInvoked |-> cls]

InitCalls ==
    /\ IdleCalls
    /\ NoTable
    /\ NoListing
    /\ NoLro

Call ==
    /\ nCalls < MaxCalls
    /\ \E op \in CallOps, kwMap \in CallErrMaps, cls \in BOOLEAN, status \in CallStatuses :
         /\ callOp' = op
         /\ callErrMap' = kwMap
         /\ callCls' = cls
         /\ callStatus' = status
         /\ callOutcome' = operation(op, kwMap, cls, status)
    /\ prevErrMap' = callErrMap
    /\ nCalls' = nCalls + 1
    /\ UNCHANGED tableVars
    /\ UNCHANGED <<pagingVars, lroVars>>

NextCalls == Call

SpecCalls == InitCalls /\ [][NextCalls]_vars

-----------------------------------------------------------------------------
\* TableClient: delete_table and delete_entity

\* the statuses the tables service answers a delete with when it fails
TableFailures == {401, 409, 412, 500}

\* self._client.table.delete / delete_entity raise HttpResponseError unless
\* the service answered 204
generated_delete_raises(status) == status # 204

\* _process_table_error(error, table_name): raises the decoded error
process_table_error(status) ==
    CASE status = 401 -> "ClientAuthenticationError"
      [] status = 409 -> "ResourceExistsError"
      [] status = 412 -> "ResourceModifiedError"
      [] OTHER -> "HttpResponseError"

delete_table_raises_not_found(status) ==
    IF ~generated_delete_raises(status)
    THEN [result |-> "returned", kind |-> NoError]
    ELSE [result |-> "raised", kind |-> "ResourceNotFoundError"]

\* TableClient.delete_table: what the call gives for the status of the response
delete_table(status) ==
    IF ~generated_delete_raises(status)
    THEN [result |-> "returned", kind |-> NoError]
    ELSE IF status = 404
         THEN [result |-> "returned", kind |-> NoError]
         ELSE [result |-> "raised", kind |-> process_table_error(status)]

\* TableClient.delete_entity: what the call gives for the status of the response
delete_entity(status) ==
    IF ~generated_delete_raises(status)
    THEN [result |-> "returned", kind |-> NoError]
    ELSE IF status = 404
         THEN [result |-> "returned", kind |-> NoError]
         ELSE [result |-> "raised", kind |-> process_table_error(status)]

\* a TableClient for a table that may exist, holding an entity or not
InitTables ==
    /\ tableExists \in BOOLEAN
    /\ entityExists \in BOOLEAN
    /\ entityExists => tableExists
    /\ tblCalls = <<>>
    /\ IdleCalls
    /\ NoListing
    /\ NoLro

TableLogged(op, status, outcome) ==
    tblCalls' = Append(tblCalls, [op |-> op, status |-> status, outcome |-> outcome])

\* delete_table(): the service deletes the table (204), misses it (404) or fails
DeleteTable ==
    /\ Len(tblCalls) < MaxDeletes
    /\ \E status \in {IF tableExists THEN 204 ELSE 404} \cup TableFailures :
         /\ TableLogged("delete_table", status, delete_table(status))
         /\ tableExists' = (tableExists /\ status # 204)
         /\ entityExists' = (entityExists /\ status # 204)
    /\ UNCHANGED <<callOp, callErrMap, callCls, callStatus, callOutcome, prevErrMap, nCalls>>
    /\ UNCHANGED <<pagingVars, lroVars>>

\* delete_entity(partition_key, row_key): the service deletes the entity
\* (204), misses it or its table (404) or fails
DeleteEntity ==
    /\ Len(tblCalls) < MaxDeletes
    /\ \E status \in {IF entityExists THEN 204 ELSE 404} \cup TableFailures :
         /\ TableLogged("delete_entity", status, delete_entity(status))
         /\ entityExists' = (entityExists /\ status # 204)
    /\ UNCHANGED tableExists
    /\ UNCHANGED <<callOp, callErrMap, callCls, callStatus, callOutcome, prevErrMap, nCalls>>
    /\ UNCHANGED <<pagingVars, lroVars>>

NextTables == DeleteTable \/ DeleteEntity

SpecTables == InitTables /\ [][NextTables]_vars

-----------------------------------------------------------------------------
\* Long-running operations: begin_X and the poller it returns

\* whether get_long_running_output deserializes a resource or returns None
returns_model(op) ==
    op \in {"VMSSVMExtensions_begin_create_or_update",
            "AgentPools_begin_create_or_update",
            "AgentPools_begin_upgrade_node_image_version"}

http_method_always_delete(op) == "DELETE"

http_method(op) ==
    CASE op \in {"VMSSVMExtensions_begin_delete", "AgentPools_begin_delete"} -> "DELETE"
      [] op = "AgentPools_begin_upgrade_node_image_version" -> "POST"
      [] OTHER -> "PUT"

get_long_running_output_ignores_cls(op, cls, from) ==
    [from |-> from, value |-> IF returns_model(op) THEN "model" ELSE "None"]

get_long_running_output_returns_none(op, cls, from) ==
    [from |-> from, value |-> "None"]

\* get_long_running_output(pipeline_response), the deserialization callback
get_long_running_output(op, cls, from) ==
    [from |-> from,
     value |-> IF cls THEN "cls" ELSE IF returns_model(op) THEN "model" ELSE "None"]

polling_method_always_arm(polling) == "ARMPolling"

\* polling is True: ARMPolling(lro_delay); polling is False: NoPolling()
polling_method(polling) == IF polling THEN "ARMPolling" ELSE "NoPolling"

makes_initial_call_always(cont_token) == TRUE

\* if cont_token is None: raw_result = self._X_initial(...)
makes_initial_call(cont_token) == cont_token.t = "None"

\* if cont_token: return LROPoller.from_continuation_token(...)
resumes_from_token(cont_token) == cont_token.t # "None" /\ cont_token.t # ""

lro_delay_ignores_argument(kwInterval, cfg) == cfg

\* lro_delay = kwargs.pop("polling_interval", self._config.polling_interval)
lro_delay(kwInterval, cfg) == IF kwInterval # NoInterval THEN kwInterval ELSE cfg

convention_of_location_first(response) ==
    IF response.location THEN "Location"
    ELSE IF response.asyncOperation THEN "AsyncOperation"
    ELSE "Body"

\* the convention the poller follows, resolved once from the initiating
\* response: Azure-AsyncOperation first, then Location, then the resource body
convention_of(response) ==
    IF response.asyncOperation THEN "AsyncOperation"
    ELSE IF response.location THEN "Location"
    ELSE "Body"

\* start(initial_response): the status of the new handle
initial_status(response) ==
    IF response.asyncOperation \/ response.location THEN "InProgress"
    ELSE IF response.status = 202 THEN "InProgress"
    ELSE IF response.provisioningState = "InProgress" THEN "InProgress"
    ELSE "Succeeded"

polled_status_failed_is_pending(convention, response) ==
    IF response.state = "Failed" THEN "InProgress" ELSE response.state

\* the status one poll response stands for under the convention
polled_status(convention, response) ==
    IF convention = "Location"
    THEN (IF response.code = 202 THEN "InProgress" ELSE "Succeeded")
    ELSE response.state

\* after success the final resource is read with one more GET of the
\* original resource URL when the operation was polled at another URL
needs_final_get(op, convention) ==
    convention = "AsyncOperation" /\ http_method(op) # "DELETE"

\* the delay before the next poll: Retry-After if present, else the interval
next_delay(retryAfter, interval) == IF retryAfter # NoInterval THEN retryAfter ELSE interval

done(status) == status \in TerminalStatuses

\* LROPoller(client, raw_result, get_long_running_output, polling_method):
\* the handle of the new poller
NewPoller(response) ==
    IF polling_method(lroPolling) = "NoPolling"
    THEN [convention |-> "NoPolling", status |-> "Succeeded",
          result |-> get_long_running_output(lroOp, lroCls, "initial"),
          delay |-> NoInterval]
    ELSE [convention |-> convention_of(response),
          status |-> initial_status(response),
          result |-> IF initial_status(response) = "Succeeded"
                     THEN get_long_running_output(lroOp, lroCls, "initial")
                     ELSE NoResult,
          delay |-> IF initial_status(response) = "Succeeded" THEN NoInterval
                    ELSE next_delay(response.retryAfter,
                                    lro_delay(lroIntervalArg, cfgInterval))]

\* LROPoller.from_continuation_token(polling_method, continuation_token, ...):
\* the handle of the rebuilt poller
ResumedPoller(token) ==
    IF polling_method(lroPolling) = "NoPolling"
    THEN [convention |-> "NoPolling", status |-> "Succeeded",
          result |-> get_long_running_output(lroOp, lroCls, "token"),
          delay |-> NoInterval]
    ELSE [convention |-> token.convention, status |-> "InProgress",
          result |-> NoResult,
          delay |-> lro_delay(lroIntervalArg, cfgInterval)]

continuation_token_forgets_convention(handle) == Token("Body")

\* LROPoller.continuation_token() of a handle
continuation_token_of(handle) == Token(handle.convention)

\* the handle of the poller begin_X returned, as one record
Handle ==
    [convention |-> lroConvention, status |-> lroStatus, requests |-> lroRequests,
     inFlight |-> lroInFlight, result |-> lroResult, error |-> lroError,
     delay |-> lroDelay, lastPoll |-> lroLastPoll, outstanding |-> lroOutstanding]

SetHandle(h) ==
    /\ lroConvention' = h.convention
    /\ lroStatus' = h.status
    /\ lroRequests' = h.requests
    /\ lroInFlight' = h.inFlight
    /\ lroResult' = h.result
    /\ lroError' = h.error
    /\ lroDelay' = h.delay
    /\ lroLastPoll' = h.lastPoll
    /\ lroOutstanding' = h.outstanding

CanPoll_ignores_status(h) == h.inFlight = "none"

CanPoll_ignores_in_flight(h) == h.status = "InProgress"

\* a tick polls only a handle that is not terminal
CanPoll(h) == h.status = "InProgress" /\ h.inFlight = "none"

\* step 2 of a tick: GET of the polling URL
poll_sent(h) ==
    [h EXCEPT !.requests = Append(@, "poll"), !.inFlight = "poll",
              !.outstanding = @ + 1]

\* a poll response with an error status
is_http_error(response) == response.code >= 400

\* the error kind the polling method raises for a poll response with an error
\* status: the entry of its own map, else the generic error
polling_error(status, error_map) == raised_kind(status, error_map)

\* steps 3 to 5 of a tick: the status is extracted from the poll response
poll_received(h, response) ==
    LET status == polled_status(h.convention, response)
        seen == [h EXCEPT !.lastPoll = response, !.outstanding = @ - 1]
    IN  IF is_http_error(response)
        THEN [seen EXCEPT !.inFlight = "none", !.status = "Failed",
                          !.error = polling_error(response.code, lroPollingErrMap),
                          !.delay = NoInterval]
        ELSE
        CASE status = "InProgress" ->
               [seen EXCEPT !.inFlight = "none",
                            !.delay = next_delay(response.retryAfter,
                                                 lro_delay(lroIntervalArg, cfgInterval))]
          [] status \in {"Failed", "Canceled"} ->
               [seen EXCEPT !.inFlight = "none", !.status = status,
                            !.error = "ServerOperationError", !.delay = NoInterval]
          [] status = "Succeeded" /\ needs_final_get(lroOp, h.convention) ->
               [seen EXCEPT !.inFlight = "final_get",
                            !.requests = Append(@, "final_get"), !.delay = NoInterval,
                            !.outstanding = @ + 1]
          [] status = "Succeeded" /\ ~needs_final_get(lroOp, h.convention) ->
               [seen EXCEPT !.inFlight = "none", !.status = "Succeeded",
                            !.result = get_long_running_output(lroOp, lroCls, "poll"),
                            !.delay = NoInterval]

\* the final GET of the resource arrived: its body is the result
final_get_received(h) ==
    [h EXCEPT !.inFlight = "none", !.status = "Succeeded",
              !.result = get_long_running_output(lroOp, lroCls, "final_get"),
              !.outstanding = @ - 1]

polling_kwargs_keeps_error_map(kwErrMap) == kwErrMap

\* kwargs.pop("error_map", None) before ARMPolling(lro_delay, **kwargs): the
\* error_map entry of the keywords the polling method is built with
polling_kwargs(kwErrMap) == EmptyMap

\* a begin_X operation is about to be called
InitLro ==
    /\ lroOp \in LroOps
    /\ lroPolling \in BOOLEAN
    /\ lroToken \in LroTokens
    /\ lroErrMap \in {EmptyMap, (404 :> "CustomError")}
    /\ lroCls \in BOOLEAN
    /\ lroIntervalArg \in PollingIntervalArgs
    /\ lroErrMap # EmptyMap => (~lroCls /\ lroIntervalArg = NoInterval)
    /\ cfgInterval \in ConfiguredIntervals
    /\ IdlePoller
    /\ IdleCalls
    /\ NoTable
    /\ NoListing

LroArgs == <<lroOp, lroPolling, lroToken, lroErrMap, lroCls, lroIntervalArg, cfgInterval>>

CallerVars == <<lroCaller, lroReturned>>

\* begin_X(**kwargs), from the keyword pops to the poller it returns; the
\* error_map keyword is consumed by the initiating call and popped before
\* the polling method is built
Begin ==
    /\ lroPc = "idle"
    /\ IF makes_initial_call(lroToken)
       THEN \E response \in InitialResponses :
              /\ lroInitial' = response
              /\ IF response.status \notin accepted_statuses(lroOp)
                 THEN /\ lroPc' = "raised"
                      /\ SetHandle([Handle EXCEPT
                             !.requests = <<"initial">>,
                             !.error = raised_kind(response.status,
                                 error_map_update(default_error_map(lroOp), lroErrMap))])
                 ELSE /\ lroPc' = "created"
                      /\ SetHandle([Handle EXCEPT
                             !.requests = <<"initial">>,
                             !.convention = NewPoller(response).convention,
                             !.status = NewPoller(response).status,
                             !.result = NewPoller(response).result,
                             !.delay = NewPoller(response).delay])
       ELSE /\ UNCHANGED lroInitial
            /\ IF resumes_from_token(lroToken)
               THEN /\ lroPc' = "created"
                    /\ SetHandle([Handle EXCEPT
                           !.convention = ResumedPoller(lroToken).convention,
                           !.status = ResumedPoller(lroToken).status,
                           !.result = ResumedPoller(lroToken).result,
                           !.delay = ResumedPoller(lroToken).delay])
               ELSE \* raw_result was never assigned
                    /\ lroPc' = "raised"
                    /\ SetHandle([Handle EXCEPT !.error = "UnboundLocalError"])
    /\ lroPollingErrMap' = IF lroPc' = "created"
                           THEN polling_kwargs(lroErrMap) ELSE lroPollingErrMap
    /\ UNCHANGED LroArgs
    /\ UNCHANGED <<CallerVars, resumed>>
    /\ UNCHANGED <<pagingVars, callVars>>

NumberOfPolls == Len(SelectSeq(lroRequests, LAMBDA r : r = "poll"))

\* one poll tick starts: GET of the polling URL
PollSend ==
    /\ lroPc = "created"
    /\ CanPoll(Handle)
    /\ NumberOfPolls < MaxPolls
    /\ SetHandle(poll_sent(Handle))
    /\ resumed' = IF resumed.exists /\ CanPoll(resumed) THEN poll_sent(resumed) ELSE resumed
    /\ UNCHANGED <<LroArgs, lroPollingErrMap, CallerVars, lroInitial, lroPc>>
    /\ UNCHANGED <<pagingVars, callVars>>

\* the poll response arrives and the status is extracted from it
PollReceive ==
    /\ lroInFlight = "poll"
    /\ \E response \in PollResponses :
         /\ SetHandle(poll_received(Handle, response))
         /\ resumed' = IF resumed.exists /\ resumed.inFlight = "poll"
                       THEN poll_received(resumed, response) ELSE resumed
    /\ UNCHANGED <<LroArgs, lroPollingErrMap, CallerVars, lroInitial, lroPc>>
    /\ UNCHANGED <<pagingVars, callVars>>

\* the final GET of the resource arrives: its body is the result
FinalGetReceive ==
    /\ lroInFlight = "final_get"
    /\ SetHandle(final_get_received(Handle))
    /\ resumed' = IF resumed.exists /\ resumed.inFlight = "final_get"
                  THEN final_get_received(resumed) ELSE resumed
    /\ UNCHANGED <<LroArgs, lroPollingErrMap, CallerVars, lroInitial, lroPc>>
    /\ UNCHANGED <<pagingVars, callVars>>

\* poller.continuation_token() of the mid-flight poller is handed to another
\* begin_X(continuation_token=token) call, which rebuilds a second poller
Resume ==
    /\ lroPc = "created"
    /\ makes_initial_call(lroToken)
    /\ CanPoll(Handle)
    /\ ~resumed.exists
    /\ resumes_from_token(continuation_token_of(Handle))
    /\ resumed' = [NoResumed EXCEPT
           !.exists = TRUE,
           !.convention = ResumedPoller(continuation_token_of(Handle)).convention,
           !.status = ResumedPoller(continuation_token_of(Handle)).status,
           !.result = ResumedPoller(continuation_token_of(Handle)).result,
           !.delay = ResumedPoller(continuation_token_of(Handle)).delay]
    /\ UNCHANGED <<LroArgs, lroPollingErrMap, CallerVars, lroInitial, lroPc>>
    /\ SetHandle(Handle)
    /\ UNCHANGED <<pagingVars, callVars>>

\* poller.done()
Done ==
    /\ lroPc = "created"
    /\ lroCaller = "idle"
    /\ lroReturned' = [call |-> "done",
                       kind |-> IF done(lroStatus) THEN "True" ELSE "False",
                       value |-> NoResult]
    /\ UNCHANGED <<LroArgs, lroPollingErrMap, lroInitial, lroPc, lroCaller, resumed>>
    /\ SetHandle(Handle)
    /\ UNCHANGED <<pagingVars, callVars>>

\* poller.result(timeout) is called and waits for the handle to be terminal
ResultCall ==
    /\ lroPc = "created"
    /\ lroCaller = "idle"
    /\ \E timeout \in BOOLEAN :
         lroCaller' = IF timeout THEN "waiting_timeout" ELSE "waiting"
    /\ UNCHANGED <<LroArgs, lroPollingErrMap, lroInitial, lroPc, lroReturned, resumed>>
    /\ SetHandle(Handle)
    /\ UNCHANGED <<pagingVars, callVars>>

\* result() returns the final value or raises the error of the handle
ResultReturn ==
    /\ lroCaller # "idle"
    /\ done(lroStatus)
    /\ lroCaller' = "idle"
    /\ lroReturned' = IF lroStatus = "Succeeded"
                      THEN [call |-> "result", kind |-> "value", value |-> lroResult]
                      ELSE [call |-> "result", kind |-> lroError, value |-> NoResult]
    /\ UNCHANGED <<LroArgs, lroPollingErrMap, lroInitial, lroPc, resumed>>
    /\ SetHandle(Handle)
    /\ UNCHANGED <<pagingVars, callVars>>

ResultTimeout_fails_handle ==
    /\ lroCaller = "waiting_timeout"
    /\ ~done(lroStatus)
    /\ lroCaller' = "idle"
    /\ lroReturned' = [call |-> "result", kind |-> "TimeoutError", value |-> NoResult]
    /\ UNCHANGED <<LroArgs, lroPollingErrMap, lroInitial, lroPc, resumed>>
    /\ SetHandle([Handle EXCEPT !.status = "Failed"])
    /\ UNCHANGED <<pagingVars, callVars>>

\* the timeout of result(timeout) elapses before the handle is terminal
ResultTimeout ==
    /\ lroCaller = "waiting_timeout"
    /\ ~done(lroStatus)
    /\ lroCaller' = "idle"
    /\ lroReturned' = [call |-> "result", kind |-> "TimeoutError", value |-> NoResult]
    /\ UNCHANGED <<LroArgs, lroPollingErrMap, lroInitial, lroPc, resumed>>
    /\ SetHandle(Handle)
    /\ UNCHANGED <<pagingVars, callVars>>

NextLro ==
    \/ Begin
    \/ PollSend
    \/ PollReceive
    \/ FinalGetReceive
    \/ Resume
    \/ Done
    \/ ResultCall
    \/ ResultReturn
    \/ ResultTimeout

SpecLro == InitLro /\ [][NextLro]_vars

\* begin_X is about to be called without error_map and polling_interval
InitLroDefaults ==
    /\ InitLro
    /\ lroErrMap = EmptyMap
    /\ lroIntervalArg = NoInterval

\* every request that was sent is answered, and a result() call whose
\* handle is terminal returns
FairSpecLro ==
    /\ InitLroDefaults
    /\ [][NextLro]_vars
    /\ WF_vars(PollReceive)
    /\ WF_vars(FinalGetReceive)
    /\ WF_vars(ResultReturn)

-----------------------------------------------------------------------------
\* Fairness: a consumer that iterates keeps pulling, and a request that was
\* sent is answered

FairSpecPaging ==
    /\ SpecPaging
    /\ WF_vars(YieldItem) /\ WF_vars(StopIteration) /\ WF_vars(ReceivePage)

-----------------------------------------------------------------------------
\* Claims about listings

\* the deserialized page carries no cursor: next_link absent, null or ""
TerminalPage(r) == r.status = 200 /\ ~Truthy(deserialized_next_link(listOp, r))

\* C1: the items handed to the consumer, followed by those of the current page
\* still to be yielded, are exactly the concatenation of the value lists of
\* the pages received, in fetch order; when the iteration is over every item
\* was delivered and exactly one request was issued per page.
C1_ItemsAreConcatenationOfPages ==
    /\ delivered \o current_page = expected
    /\ nRequests = nServed + (IF pagerPc = "waiting" THEN 1 ELSE 0)
    /\ pagerPc = "done" => delivered = expected /\ nRequests = nServed

C1_Witness ==
    /\ pagerPc = "done"
    /\ nServed = 3
    /\ Len(delivered) >= 4

\* C2: after an empty page that carries a next_link the iteration is not over:
\* the cursor is kept and the only step the pager takes is the request for
\* that next_link.
EmptyPageWithLink ==
    /\ pagerPc = "ready"
    /\ lastResponse.status = 200
    /\ lastResponse.value = <<>>
    /\ Truthy(deserialized_next_link(listOp, lastResponse))

C2_EmptyPageContinues ==
    /\ [](EmptyPageWithLink => continuation_token = lastResponse.nextLink)
    /\ [][EmptyPageWithLink =>
            /\ pagerPc' = "waiting"
            /\ nRequests' = nRequests + 1
            /\ lastRequest'.path = lastResponse.nextLink.path]_vars

C2_Witness ==
    /\ pagerPc = "waiting"
    /\ lastResponse.status = 200
    /\ lastResponse.value = <<>>
    /\ Truthy(lastResponse.nextLink)
    /\ nRequests = nServed + 1
    /\ lastRequest.path = lastResponse.nextLink.path

\* C3: the iteration ends only at a page without cursor and with every item
\* delivered; once such a page was received no request is issued any more;
\* and a consumer that keeps pulling then reaches the end of the sequence.
C3_EndsAtFirstPageWithoutCursor ==
    /\ [](pagerPc = "done" => TerminalPage(lastResponse) /\ delivered = expected)
    /\ [][(TerminalPage(lastResponse) /\ pagerPc # "waiting") =>
            /\ nRequests' = nRequests
            /\ pagerPc' \in {"ready", "done"}]_vars
    /\ ((TerminalPage(lastResponse) /\ pagerPc = "ready") ~> (pagerPc = "done"))

C3_Witness ==
    /\ pagerPc = "done"
    /\ lastResponse.nextLink.t = "empty"
    /\ nRequests = 2
    /\ delivered # <<>>

\* the next-page request in flight: get_next was called with a cursor
NextPageRequestInFlight == pagerPc = "waiting" /\ Truthy(continuation_token)

ParsedNextLinkOps == ListOps \ {"AgentPools_list"}

\* C4 (as claimed): a next-page request is a GET to the path of the next_link
\* with every query parameter of the next_link, api-version excepted, which is
\* the client's configured api-version.
C4_NextRequestCarriesNextLinkQuery ==
    (NextPageRequestInFlight /\ listOp \in ParsedNextLinkOps) =>
        /\ lastRequest.method = "GET"
        /\ lastRequest.path = continuation_token.path
        /\ lastRequest.params["api-version"] = <<cfgApi>>
        /\ \A i \in 1..Len(continuation_token.query) :
             LET kv == continuation_token.query[i] IN
             Lower(kv[1]) # "api-version" =>
                /\ kv[1] \in DOMAIN lastRequest.params
                /\ \E j \in 1..Len(lastRequest.params[kv[1]]) :
                      lastRequest.params[kv[1]][j] = kv[2]

C4_Witness ==
    /\ NextPageRequestInFlight
    /\ listOp = "list_update_domains"
    /\ \E i \in 1..Len(continuation_token.query) :
          /\ continuation_token.query[i][2] = ""
          /\ continuation_token.query[i][1] \notin DOMAIN lastRequest.params

\* C5 (as claimed): with a per-call api_version every request of the listing
\* carries that api-version.
C5_EveryRequestCarriesCallApiVersion ==
    (listApi # NoArg /\ nRequests >= 1) =>
        lastRequest.params["api-version"] = <<listApi>>

C5_Witness ==
    /\ NextPageRequestInFlight
    /\ listOp = "list_update_domains"
    /\ listApi = "2020-01-01"
    /\ cfgApi = "2021-03-01"
    /\ lastRequest.params["api-version"] = <<"2021-03-01">>

\* the kind a non-200 page response is raised as
TypedErrorOf(status) ==
    IF status \in DOMAIN listErrMap THEN listErrMap[status]
    ELSE IF status \in DOMAIN default_error_map(listOp)
         THEN default_error_map(listOp)[status]
         ELSE "HttpResponseError"

\* C6: a non-200 page response is raised to the consumer as its typed error
\* after every item of the earlier pages was delivered, and after the error
\* no request is issued and no item is delivered.
C6_PageErrorAbortsListing ==
    /\ [](lastResponse.status \notin {0, 200} =>
            /\ pagerPc = "raised"
            /\ pagerError = TypedErrorOf(lastResponse.status)
            /\ delivered = expected
            /\ current_page = <<>>
            /\ nRequests = nServed)
    /\ [](pagerPc = "raised" => lastResponse.status \notin {0, 200})
    /\ [][pagerPc = "raised" => UNCHANGED <<nRequests, delivered, pagerPc>>]_vars

C6_Witness ==
    /\ pagerPc = "raised"
    /\ pagerError = "ResourceNotFoundError"
    /\ nServed = 3
    /\ Len(delivered) >= 2

-----------------------------------------------------------------------------
\* Claims about the error mapping of single calls

CallMade == callOutcome.result # "none"

RejectedWithoutErrorMap ==
    CallMade /\ callErrMap = EmptyMap /\ callStatus \notin accepted_statuses(callOp)

\* the kinds the claim names for a call without error_map
KindWithoutErrorMap ==
    CASE callStatus = 401 -> "ClientAuthenticationError"
      [] callStatus = 404 -> "ResourceNotFoundError"
      [] callStatus = 409 -> "ResourceExistsError"
      [] callStatus = 304 /\ callOp \in {"VMSSVMExtensions_get", "AvailabilitySets_get",
                                        "get_update_domain"} -> "ResourceNotModifiedError"
      [] OTHER -> "HttpResponseError"

C8_NotModifiedAlwaysRaised ==
    (CallMade /\ callErrMap = EmptyMap /\ callStatus = 304) =>
        /\ callOutcome.result = "raised"
        /\ callOutcome.kind = "ResourceNotModifiedError"

\* C8 (amended): without error_map a 304 is raised as ResourceNotModifiedError
\* by the operations whose error map names 304; FactoriesOperations.get
\* accepts 304 and returns None without deserializing; the other operations
\* raise the generic HttpResponseError.
C8_NotModifiedByOperation ==
    (CallMade /\ callErrMap = EmptyMap /\ callStatus = 304) =>
        CASE callOp \in {"VMSSVMExtensions_get", "AvailabilitySets_get",
                         "get_update_domain"} ->
                /\ callOutcome.result = "raised"
                /\ callOutcome.kind = "ResourceNotModifiedError"
          [] callOp = "Factories_get" ->
                /\ callOutcome.result = "returned"
                /\ ~callOutcome.deserialized
                /\ callOutcome.value = IF callCls THEN "cls" ELSE "None"
          [] OTHER ->
                /\ callOutcome.result = "raised"
                /\ callOutcome.kind = "HttpResponseError"

C8_Witness ==
    /\ CallMade /\ callErrMap = EmptyMap /\ callStatus = 304
    /\ callOp = "AvailabilitySets_get"
    /\ callOutcome.result = "raised"
    /\ callOutcome.kind = "ResourceNotModifiedError"

\* C9: a call raises exactly for the statuses outside its accepted set; the
\* kind is the one its error_map names for the status and the default kind
\* for every status it does not name, whatever error_map the call before it
\* on the same operations object passed.
C9_ErrorMapOverridesNamedStatusesOnly ==
    CallMade =>
        /\ callOutcome.result = "raised" <=> callStatus \notin accepted_statuses(callOp)
        /\ callOutcome.result = "raised" =>
              callOutcome.kind = IF callStatus \in DOMAIN callErrMap
                                 THEN callErrMap[callStatus]
                                 ELSE KindWithoutErrorMap

C9_Witness ==
    /\ nCalls >= 2
    /\ prevErrMap = (404 :> "CustomError")
    /\ callErrMap = EmptyMap
    /\ callStatus = 404
    /\ callOutcome.kind = "ResourceNotFoundError"

-----------------------------------------------------------------------------
\* Claims about long-running operations

\* C10: with polling=False the poller begin_X returns is done at once, its
\* result is built from the initiating response, and the initiating request
\* is the only request ever issued for the operation.
C10_NoPollingIsDoneAtOnce ==
    ~lroPolling =>
        /\ lroInFlight = "none"
        /\ lroRequests = IF lroToken = NoToken /\ lroPc # "idle" THEN <<"initial">> ELSE <<>>
        /\ (lroToken = NoToken /\ lroPc # "idle") =>
              (lroPc = "created" <=> lroInitial.status \in accepted_statuses(lroOp))
        /\ lroPc = "created" =>
              /\ lroStatus = "Succeeded"
              /\ lroResult.value = IF lroCls THEN "cls"
                                   ELSE IF returns_model(lroOp) THEN "model" ELSE "None"
              /\ lroToken = NoToken => lroResult.from = "initial"

C10_Witness ==
    /\ ~lroPolling
    /\ lroToken = NoToken
    /\ lroPc = "created"
    /\ lroInitial.status = 202
    /\ lroInitial.asyncOperation
    /\ lroStatus = "Succeeded"
    /\ lroRequests = <<"initial">>
    /\ lroResult.from = "initial"

\* the value get_long_running_output gives for the operation
ResultValue == IF lroCls THEN "cls" ELSE IF returns_model(lroOp) THEN "model" ELSE "None"

PollerExists == lroPc = "created"

\* C11: begin_X called with a non-empty continuation_token sends no
\* initiating request; the poller is rebuilt from the token and the first
\* request it sends, if it sends any, is a status check.
C11_TokenSkipsInitiatingRequest ==
    /\ lroToken.t = "token" =>
         /\ lroInitial = NoInitial
         /\ \A i \in 1..Len(lroRequests) : lroRequests[i] # "initial"
         /\ lroRequests # <<>> => lroRequests[1] = "poll"
         /\ lroPc \in {"idle", "created"}
         /\ (PollerExists /\ lroPolling) => lroConvention = lroToken.convention
    /\ resumed.exists =>
         /\ \A i \in 1..Len(resumed.requests) : resumed.requests[i] # "initial"
         /\ resumed.requests # <<>> => resumed.requests[1] = "poll"

C11_Witness ==
    /\ lroToken.t = "token"
    /\ lroOp = "begin_walk_update_domain"
    /\ lroPolling
    /\ PollerExists
    /\ lroRequests = <<"poll">>

\* a step from a terminal handle leaves the handle as it is
TerminalHandleIsFrozen ==
    lroStatus \in TerminalStatuses =>
        /\ lroStatus' = lroStatus
        /\ lroRequests' = lroRequests
        /\ lroInFlight' = "none"
        /\ lroResult' = lroResult
        /\ lroError' = lroError

\* C12: once the status of the handle is Succeeded, Failed or Canceled it
\* never changes again, whatever tick, result() or done() call follows, and
\* no request is sent after it became terminal.
C12_TerminalStatusIsFinal == [][TerminalHandleIsFrozen]_vars

C12_Witness ==
    /\ lroStatus = "Canceled"
    /\ lroReturned.call = "result"
    /\ lroReturned.kind = "ServerOperationError"
    /\ lroCaller = "waiting"

\* the initiating response is a 200 with a complete resource body and no
\* asynchronous-operation marker
CompleteInitialResponse ==
    /\ lroInitial.status = 200
    /\ ~lroInitial.asyncOperation
    /\ ~lroInitial.location
    /\ lroInitial.provisioningState # "InProgress"

\* C13: after a 200 initiating response with a complete resource body and
\* no asynchronous-operation marker, done() is true as soon as the poller
\* exists, result() returns the resource deserialized from that response,
\* and the initiating request stays the only request.
C13_CompleteInitialResponseIsDone ==
    (PollerExists /\ CompleteInitialResponse) =>
        /\ done(lroStatus)
        /\ lroStatus = "Succeeded"
        /\ lroRequests = <<"initial">>
        /\ lroInFlight = "none"
        /\ lroResult = [from |-> "initial", value |-> ResultValue]
        /\ lroReturned.call = "done" => lroReturned.kind = "True"
        /\ lroReturned.call = "result" =>
              lroReturned = [call |-> "result", kind |-> "value",
                             value |-> [from |-> "initial", value |-> ResultValue]]

C13_Witness ==
    /\ PollerExists
    /\ CompleteInitialResponse
    /\ lroOp = "VMSSVMExtensions_begin_create_or_update"
    /\ lroPolling
    /\ ~lroCls
    /\ lroReturned = [call |-> "result", kind |-> "value",
                      value |-> [from |-> "initial", value |-> "model"]]

\* the conventions under which the status reported in the body drives the handle
StatusDrivenConventions == {"AsyncOperation", "Body"}

\* the last poll response reported the state, under a status-driven convention
Polled(state) ==
    /\ PollerExists
    /\ lroConvention \in StatusDrivenConventions
    /\ lroLastPoll.state = state

\* C14: after in-progress poll responses followed by one whose body reports
\* Succeeded, the handle becomes Succeeded with the value of the deserialization
\* callback, and a pending result() call eventually returns that value, done()
\* being true.
C14_SucceededPollYieldsResult ==
    /\ [](Polled("Succeeded") /\ lroInFlight = "none" =>
             /\ lroStatus = "Succeeded"
             /\ done(lroStatus)
             /\ lroResult.value = ResultValue
             /\ lroResult.from \in {"poll", "final_get"})
    /\ (Polled("Succeeded") /\ lroCaller = "waiting")
          ~> (/\ lroStatus = "Succeeded"
              /\ lroReturned.call = "result"
              /\ lroReturned.kind = "value"
              /\ lroReturned.value = lroResult
              /\ lroReturned.value.value = ResultValue)

C14_Witness ==
    /\ Polled("Succeeded")
    /\ lroOp = "AgentPools_begin_create_or_update"
    /\ lroConvention = "Body"
    /\ NumberOfPolls = 2
    /\ ~lroCls
    /\ lroReturned = [call |-> "result", kind |-> "value",
                      value |-> [from |-> "poll", value |-> "model"]]

\* a result() call returns in this step
ResultReturns == lroCaller # "idle" /\ lroCaller' = "idle"

\* a step from a failed handle: no request is sent, the handle stays as it is
\* and a returning result() call raises the server-operation error
FailedHandleRaises ==
    (lroStatus = "Failed" /\ lroError = "ServerOperationError") =>
        /\ lroStatus' = "Failed"
        /\ lroError' = "ServerOperationError"
        /\ lroRequests' = lroRequests
        /\ lroInFlight' = "none"
        /\ ResultReturns =>
              lroReturned' = [call |-> "result", kind |-> "ServerOperationError",
                              value |-> NoResult]

\* C15: when a poll response reports Failed the handle is terminal with the
\* server-operation error; every result() call raises that error, a later
\* call as well, and no poll request is sent any more.
C15_FailedPollRaisesServerOperationError ==
    /\ [](Polled("Failed") =>
             /\ lroStatus = "Failed"
             /\ lroError = "ServerOperationError"
             /\ lroInFlight = "none"
             /\ lroResult = NoResult)
    /\ [][FailedHandleRaises]_vars

C15_Witness ==
    /\ Polled("Failed")
    /\ lroOp = "begin_walk_update_domain"
    /\ lroStatus = "Failed"
    /\ lroReturned = [call |-> "result", kind |-> "ServerOperationError", value |-> NoResult]
    /\ lroCaller = "waiting"

\* the initiating response is a 202 carrying an Azure-AsyncOperation URL, for
\* an operation on a resource that exists afterwards
AsyncOperationStarted ==
    /\ PollerExists
    /\ lroPolling
    /\ lroInitial.status = 202
    /\ lroInitial.asyncOperation
    /\ lroOp \notin {"VMSSVMExtensions_begin_delete", "AgentPools_begin_delete"}

BothHeaders ==
    /\ PollerExists
    /\ lroPolling
    /\ lroInitial.asyncOperation
    /\ lroInitial.location

\* C18: when the initiating response carries both Azure-AsyncOperation and
\* Location, the Azure-AsyncOperation URL is polled and the status in the
\* body drives the handle: a poll response that is not a 202 but reports
\* InProgress leaves the handle in progress.
C18_AsyncOperationWinsOverLocation ==
    BothHeaders =>
        /\ lroConvention = "AsyncOperation"
        /\ (lroLastPoll # NoPoll /\ ~is_http_error(lroLastPoll) /\ lroInFlight = "none") =>
              lroStatus = lroLastPoll.state
        /\ lroStatus = "Succeeded" => lroLastPoll.state = "Succeeded"

C18_Witness ==
    /\ BothHeaders
    /\ lroOp = "AgentPools_begin_upgrade_node_image_version"
    /\ lroLastPoll.code = 200
    /\ lroLastPoll.state = "InProgress"
    /\ lroInFlight = "none"
    /\ lroStatus = "InProgress"

\* the Retry-After of the last response the poller received
LastRetryAfter ==
    IF lroLastPoll # NoPoll THEN lroLastPoll.retryAfter ELSE lroInitial.retryAfter

\* the polling interval of the call
PollingInterval == IF lroIntervalArg # NoInterval THEN lroIntervalArg ELSE cfgInterval

\* C19: while the operation is in progress the wait before the next poll is
\* the Retry-After of the last response when it has one, and otherwise the
\* polling_interval keyword of the call, or the client's configured
\* polling_interval when the keyword was not passed.
C19_DelayIsRetryAfterOrInterval ==
    (PollerExists /\ lroStatus = "InProgress" /\ lroInFlight = "none") =>
        lroDelay = IF LastRetryAfter # NoInterval THEN LastRetryAfter ELSE PollingInterval

C19_Witness ==
    /\ PollerExists
    /\ lroOp = "VMSSVMExtensions_begin_create_or_update"
    /\ lroStatus = "InProgress"
    /\ lroInFlight = "none"
    /\ lroIntervalArg = 5
    /\ lroLastPoll.state = "InProgress"
    /\ lroLastPoll.retryAfter = NoInterval
    /\ lroDelay = 5

\* the timeout of a result(timeout) call elapses in this step
TimesOut ==
    /\ lroCaller = "waiting_timeout"
    /\ lroCaller' = "idle"
    /\ ~done(lroStatus)

\* a timeout is raised to the caller and nothing of the handle changes
TimeoutLeavesHandle ==
    /\ TimesOut =>
         /\ lroReturned' = [call |-> "result", kind |-> "TimeoutError", value |-> NoResult]
         /\ lroStatus' = lroStatus
         /\ ~done(lroStatus')
         /\ lroRequests' = lroRequests
         /\ lroInFlight' = lroInFlight
         /\ lroResult' = lroResult
         /\ lroError' = lroError
    /\ (lroReturned' # lroReturned /\ lroReturned'.kind = "TimeoutError") => TimesOut

\* C20: a result(timeout) call that times out raises the timeout condition
\* and leaves the handle as it was, not terminal; a later result() call
\* returns the final value once the operation succeeded.
C20_TimeoutLeavesHandleRunning ==
    /\ [][TimeoutLeavesHandle]_vars
    /\ (lroReturned.kind = "TimeoutError" /\ lroCaller = "waiting"
          /\ lroStatus = "Succeeded")
          ~> (/\ lroReturned.kind = "value"
              /\ lroReturned.value = lroResult)

C20_Witness ==
    /\ lroOp = "begin_walk_update_domain"
    /\ lroReturned.kind = "TimeoutError"
    /\ lroCaller = "waiting"
    /\ lroStatus = "Succeeded"
    /\ NumberOfPolls >= 1

-----------------------------------------------------------------------------
\* begin_X and its continuation_token values

\* begin_X sent the initiating request and the service rejected it
InitialRejected ==
    /\ lroInitial # NoInitial
    /\ lroInitial.status \in
         CASE lroOp \in {"begin_walk_update_domain",
                         "AgentPools_begin_upgrade_node_image_version"}
                -> {201, 204, 404, 500}
           [] lroOp = "VMSSVMExtensions_begin_delete" -> {201, 404, 500}
           [] lroOp = "AgentPools_begin_delete" -> {200, 201, 404, 500}
           [] lroOp \in {"VMSSVMExtensions_begin_create_or_update",
                         "AgentPools_begin_create_or_update"}
                -> {202, 204, 404, 500}

\* begin_X sent exactly the initiating request and returned the poller built
\* from its response
BuiltFromInitialResponse ==
    /\ PollerExists
    /\ lroInitial # NoInitial
    /\ lroRequests # <<>>
    /\ lroRequests[1] = "initial"
    /\ \A i \in 2..Len(lroRequests) : lroRequests[i] # "initial"

\* begin_X sent no initiating request and returned the poller resumed from the token
ResumedFromToken ==
    /\ PollerExists
    /\ lroInitial = NoInitial
    /\ \A i \in 1..Len(lroRequests) : lroRequests[i] # "initial"
    /\ lroPolling => lroConvention = lroToken.convention

\* C27: for every continuation_token value (None, the empty string, a
\* non-empty token), once begin_X has returned it has either sent exactly one
\* initiating request and built the poller from its accepted response, or
\* sent none and resumed the poller from the token; it never builds a poller
\* from a response it did not obtain.
C27_BeginBuildsPollerFromResponseOrToken ==
    (lroPc # "idle" /\ ~InitialRejected) =>
        \/ BuiltFromInitialResponse
        \/ ResumedFromToken

\* begin_X(continuation_token="") made no initiating call and then read raw_result
C27_Witness ==
    /\ lroToken = EmptyToken
    /\ lroOp = "begin_walk_update_domain"
    /\ lroPc = "raised"
    /\ lroInitial = NoInitial
    /\ lroRequests = <<>>
    /\ lroError = "UnboundLocalError"

\* the kind begin_X raises for a rejected status of the initiating response
InitialErrorKind ==
    CASE lroInitial.status \in DOMAIN lroErrMap -> lroErrMap[lroInitial.status]
      [] lroInitial.status \notin DOMAIN lroErrMap /\ lroInitial.status = 401
           -> "ClientAuthenticationError"
      [] lroInitial.status \notin DOMAIN lroErrMap /\ lroInitial.status = 404
           -> "ResourceNotFoundError"
      [] lroInitial.status \notin DOMAIN lroErrMap /\ lroInitial.status = 409
           -> "ResourceExistsError"
      [] OTHER -> "HttpResponseError"

\* C28: when the status of the initiating response is outside the accepted
\* set of the operation, begin_X raises the error the error map gives for the
\* status; no poller is created and no polling request is ever sent.
C28_RejectedInitialResponseRaises ==
    InitialRejected =>
        /\ lroPc = "raised"
        /\ ~PollerExists
        /\ lroError = InitialErrorKind
        /\ lroRequests = <<"initial">>
        /\ lroInFlight = "none"
        /\ lroStatus = "NotStarted"
        /\ lroResult = NoResult
        /\ ~resumed.exists

C28_Witness ==
    /\ InitialRejected
    /\ lroOp = "VMSSVMExtensions_begin_delete"
    /\ lroInitial.status = 404
    /\ lroErrMap = EmptyMap
    /\ lroPc = "raised"
    /\ lroError = "ResourceNotFoundError"

-----------------------------------------------------------------------------
\* The ticks of one poller

\* a poll request is sent in this step
TickStarts ==
    /\ Len(lroRequests') = Len(lroRequests) + 1
    /\ lroRequests'[Len(lroRequests')] = "poll"

\* a done() or result() call starts or returns in this step
CallerSteps == lroCaller' # lroCaller \/ lroReturned' # lroReturned

\* a tick starts only when no request of the poller awaits its response, and
\* a step of a caller sends nothing
TicksAreSequential ==
    /\ TickStarts => (lroOutstanding = 0 /\ lroInFlight = "none"
                      /\ lroOutstanding' = 1)
    /\ CallerSteps => (lroOutstanding' = lroOutstanding
                       /\ lroRequests' = lroRequests)

C30_ErrorMapGovernsInitiatingRequestOnly ==
    /\ (InitialRejected /\ lroInitial.status \in DOMAIN lroErrMap) =>
          lroError = lroErrMap[lroInitial.status]
    /\ PollerExists => lroPollingErrMap = EmptyMap
    /\ (PollerExists /\ is_http_error(lroLastPoll)) =>
          /\ lroStatus = "Failed"
          /\ lroError = "HttpResponseError"
    /\ (resumed.exists /\ is_http_error(resumed.lastPoll)) =>
          resumed.error = "HttpResponseError"

C30_Witness ==
    /\ lroOp = "begin_walk_update_domain"
    /\ lroErrMap = (404 :> "CustomError")
    /\ PollerExists
    /\ lroLastPoll.code = 404
    /\ lroRequests = <<"initial", "poll">>
    /\ lroStatus = "Failed"
    /\ lroError = "HttpResponseError"

-----------------------------------------------------------------------------
\* TableClient deletes

\* the i-th delete call found nothing to delete
NotFoundReturns(i) ==
    tblCalls[i].status = 404 =>
        tblCalls[i].outcome = [result |-> "returned", kind |-> NoError]

\* the i-th delete call met an error status other than 404
OtherErrorRaises(i) ==
    tblCalls[i].status \notin {204, 404} =>
        /\ tblCalls[i].outcome.result = "raised"
        /\ tblCalls[i].outcome.kind # NoError

\* C26: delete_table and delete_entity return without raising when the
\* service answers 404, so that deleting the same table or entity twice raises
\* nothing; every other error status is raised to the caller.
C26_DeleteSwallowsNotFoundOnly ==
    \A i \in 1..Len(tblCalls) :
        /\ NotFoundReturns(i)
        /\ OtherErrorRaises(i)
        /\ tblCalls[i].status = 204 => tblCalls[i].outcome.result = "returned"
        /\ (/\ i > 1
            /\ tblCalls[i-1].op = tblCalls[i].op
            /\ tblCalls[i-1].status = 204
            /\ tblCalls[i].status \notin TableFailures) =>
              /\ tblCalls[i].status = 404
              /\ tblCalls[i].outcome.result = "returned"

\* the table was deleted twice, then no entity was found in it
C26_Witness ==
    /\ Len(tblCalls) = 3
    /\ tblCalls[1] = [op |-> "delete_table", status |-> 204,
                      outcome |-> [result |-> "returned", kind |-> NoError]]
    /\ tblCalls[2] = [op |-> "delete_table", status |-> 404,
                      outcome |-> [result |-> "returned", kind |-> NoError]]
    /\ tblCalls[3] = [op |-> "delete_entity", status |-> 404,
                      outcome |-> [result |-> "returned", kind |-> NoError]]

-----------------------------------------------------------------------------
\* The requests of one listing

\* a page request is sent in this step
PageRequestSent == nRequests' = nRequests + 1

\* the request for the page after page k: page k was received, it carried a
\* cursor, and the request goes to exactly that cursor
FollowsReceivedPage ==
    (PageRequestSent /\ nRequests >= 1) =>
        /\ pagerPc = "ready"
        /\ nServed = nRequests
        /\ lastResponse.status = 200
        /\ Truthy(lastResponse.nextLink)
        /\ continuation_token = lastResponse.nextLink
        /\ lastRequest'.method = "GET"
        /\ lastRequest'.path = lastResponse.nextLink.path
        /\ pagerPc' = "waiting"

\* a received page replaces the cursor the request was made with
CursorIsUsedOnce ==
    (nServed' = nServed + 1 /\ pagerPc' = "ready") =>
        /\ did_a_call_already'
        /\ continuation_token' =
              (IF listOp # "list_available_sizes" /\ Truthy(lastResponse'.nextLink)
               THEN lastResponse'.nextLink ELSE NoneLink)

\* C22: within one iteration the request for page k+1 is sent only after the
\* response of page k was received and goes to exactly the cursor page k
\* returned; a cursor serves one request, so at most one request is ahead of
\* the responses.
C22_NextRequestFollowsPreviousResponse ==
    /\ [](nRequests \in {nServed, nServed + 1})
    /\ [](nRequests = nServed + 1 <=> pagerPc = "waiting")
    /\ [][FollowsReceivedPage /\ CursorIsUsedOnce]_vars

C22_Witness ==
    /\ listOp = "list_by_restore_point"
    /\ byPageToken = NoneLink
    /\ nRequests = 3
    /\ nServed = 2
    /\ pagerPc = "waiting"
    /\ lastRequest.path = lastResponse.nextLink.path

\* a listing started by by_page(continuation_token=token) with a token
ResumedListing == Truthy(byPageToken)

\* the first request of a resumed listing is the next-page request for the
\* token, and a later request is the one for the cursor of the last page, as
\* in a listing that was not interrupted
ResumedRequestIsNextPageRequest ==
    (ResumedListing /\ PageRequestSent) =>
        /\ lastRequest' # prepare_request(listOp, NoneLink, listApi, cfgApi)
        /\ lastRequest'.path # ListPath(listOp)
        /\ nRequests = 0 =>
              /\ lastRequest' = prepare_request(listOp, byPageToken, listApi, cfgApi)
              /\ lastRequest'.path = byPageToken.path
        /\ nRequests >= 1 =>
              /\ lastRequest' = prepare_request(listOp, lastResponse.nextLink,
                                                listApi, cfgApi)
              /\ lastRequest'.path = lastResponse.nextLink.path

\* C25: a listing started through by_page with a continuation token sends
\* no initial list request: its first request is the next-page request for
\* the token, and the pages after it are requested as in an uninterrupted
\* listing that had reached that cursor.
C25_ByPageTokenSkipsInitialRequest ==
    /\ [](ResumedListing /\ nRequests = 0 => continuation_token = byPageToken)
    /\ [](ResumedListing /\ nRequests >= 1 => lastRequest.path # ListPath(listOp))
    /\ [][ResumedRequestIsNextPageRequest]_vars

C25_Witness ==
    /\ ResumedListing
    /\ listOp = "list_update_domains"
    /\ nRequests = 2
    /\ nServed = 2
    /\ lastRequest.path = "/list"
    /\ pagerPc = "done"
    /\ Len(delivered) = 3

\* C29: list_available_sizes sends exactly one request per iteration and
\* yields exactly the items of its response: whatever nextLink the body
\* carries, no request follows.
C29_AvailableSizesIsOnePage ==
    listOp = "list_available_sizes" =>
        /\ nRequests <= 1
        /\ (byPageToken = NoneLink /\ nRequests = 1) =>
              lastRequest.path = ListPath(listOp)
        /\ nServed = 1 =>
              /\ expected = lastResponse.value
              /\ pagerPc # "raised" =>
                    /\ continuation_token = NoneLink
                    /\ delivered \o current_page = lastResponse.value
        /\ pagerPc = "done" =>
              /\ nRequests = 1
              /\ delivered = lastResponse.value

C29_Witness ==
    /\ listOp = "list_available_sizes"
    /\ byPageToken = NoneLink
    /\ pagerPc = "done"
    /\ nRequests = 1
    /\ Truthy(lastResponse.nextLink)
    /\ delivered = <<"A", "B">>

-----------------------------------------------------------------------------
\* The synchronous and the asynchronous flavour of a list operation

\* the list operation of the synchronous package and the one of the aio package
SyncListOp == "list_update_domains"
AsyncListOp == "list_os_versions"

\* a request with the path of the operation's own list URL made comparable
RelativeTo(op, request) ==
    [request EXCEPT !.path = IF @ = ListPath(op) THEN "{list}" ELSE @]

\* from the same cursor both flavours prepare the same request, and from the
\* same response both give the same error, cursor and page; the listing under
\* way, of either flavour, sends that request and takes that outcome
FlavoursAgree ==
    /\ PageRequestSent =>
          /\ RelativeTo(SyncListOp,
                 prepare_request(SyncListOp, continuation_token, listApi, cfgApi))
             = RelativeTo(AsyncListOp,
                 prepare_request(AsyncListOp, continuation_token, listApi, cfgApi))
          /\ listOp \in {SyncListOp, AsyncListOp} =>
                lastRequest' = prepare_request(listOp, continuation_token, listApi, cfgApi)
    /\ nServed' = nServed + 1 =>
          /\ get_next(SyncListOp, lastResponse', listErrMap)
             = get_next(AsyncListOp, lastResponse', listErrMap)
          /\ extract_data(SyncListOp, lastResponse')
             = extract_data(AsyncListOp, lastResponse')
          /\ listOp \in {SyncListOp, AsyncListOp} =>
                /\ pagerError' = get_next(SyncListOp, lastResponse', listErrMap).kind
                /\ pagerPc' = "ready" =>
                      /\ continuation_token' = extract_data(SyncListOp, lastResponse').token
                      /\ current_page' = extract_data(SyncListOp, lastResponse').page

-----------------------------------------------------------------------------
\* Two listings side by side

\* the kind a listing raises for a status, from its own error_map keyword
OwnErrorKind(op, kwMap, status) ==
    IF status \in DOMAIN kwMap THEN kwMap[status]
    ELSE IF status \in DOMAIN default_error_map(op) THEN default_error_map(op)[status]
    ELSE "HttpResponseError"

\* the cursor a listing holds after a page, from that page only
OwnCursor(response) ==
    IF Truthy(response.nextLink) THEN response.nextLink ELSE NoneLink

\* each listing is where it would be had it run alone on its own keywords
\* and its own responses
EachListingAsAlone ==
    /\ delivered \o current_page = expected
    /\ other.delivered \o other.current_page = other.expected
    /\ pagerPc = "raised" =>
          pagerError = OwnErrorKind(listOp, listErrMap, lastResponse.status)
    /\ other.pc = "raised" =>
          other.error = OwnErrorKind(other.op, other.errMap, other.lastResponse.status)
    /\ nRequests = 1 =>
          /\ lastRequest.path = ListPath(listOp)
          /\ lastRequest.params["api-version"] = <<PackageApiVersion(listOp)>>
    /\ other.nRequests = 1 =>
          /\ other.lastRequest.path = ListPath(other.op)
          /\ other.lastRequest.params["api-version"] = <<other.api>>
    /\ (pagerPc = "ready" /\ nServed >= 1) =>
          continuation_token = OwnCursor(lastResponse)
    /\ (other.pc = "ready" /\ other.nServed >= 1) =>
          other.continuation_token = OwnCursor(other.lastResponse)
    /\ (pagerPc = "waiting" /\ nRequests >= 2) =>
          lastRequest.path = lastResponse.nextLink.path
    /\ (other.pc = "waiting" /\ other.nRequests >= 2) =>
          other.lastRequest.path = other.lastResponse.nextLink.path

\* a step of one listing changes nothing of the other
StepsAreIsolated ==
    /\ other' # other => OneListingVars' = OneListingVars
    /\ OneListingVars' # OneListingVars => other' = other

====
